---- MODULE Spec2Model ----
(***************************************************************************)
(* A model of mp2024pkg/core.py: the value summarisers show, show_list and *)
(* show_dict, the word truncation truncate_value nested in show, and the   *)
(* directory lister tree.                                                  *)
(*                                                                         *)
(* Python values are records that carry what the summarisers can observe   *)
(* of them: the type name, whether keys() exists, whether the value is an  *)
(* Iterable, how len() and str() end (a result or a raised exception), and *)
(* the elements iteration yields.  Printed output is a sequence of lines.  *)
(***************************************************************************)
EXTENDS Integers, Sequences, FiniteSets, TLC

VARIABLES
    item,            \* the value handed to show / show_list / show_dict
    max_head_items,  \* show's max_head_items, show_list's max_head
    max_tail_items,  \* show's max_tail_items, show_list's max_tail
    calls,           \* one record per finished call on item, oldest first
    text,            \* the value handed to truncate_value
    preview,         \* what truncate_value returned for it
    truncated,       \* whether truncate_value has run
    fs,              \* the directory graph tree walks
    max_files,       \* tree's max_files
    max_depth,       \* tree's max_depth
    stack,           \* tree's call stack, innermost frame last
    printed          \* the lines tree has printed

vars == <<item, max_head_items, max_tail_items, calls, text, preview,
          truncated, fs, max_files, max_depth, stack, printed>>

showVars == <<item, max_head_items, max_tail_items, calls>>
truncVars == <<text, preview, truncated>>
treeVars == <<fs, max_files, max_depth, stack, printed>>

-----------------------------------------------------------------------------
(* Bounds of the model. *)

\* longest list, generator, string or dictionary handed to the summarisers
MaxLen == 3
\* largest max_head_items / max_head tried
MaxHead == 1
\* largest max_tail_items / max_tail tried
MaxTail == 1
\* calls made in a row on the same value
MaxCalls == 2

-----------------------------------------------------------------------------
(* Text: a string is a sequence of one-character strings. *)

Max(a, b) == IF a > b THEN a ELSE b
Min(a, b) == IF a < b THEN a ELSE b

\* the characters str.split() treats as separators
IsSpace(c) == c \in {" ", "\n", "\t"}

RECURSIVE WordEnd(_, _)
\* first position at or after i that holds a separator (Len(s)+1 if none)
WordEnd(s, i) ==
    IF i > Len(s) \/ IsSpace(s[i]) THEN i ELSE WordEnd(s, i + 1)

\* a word starts at i: no separator at i, and a separator (or nothing) before
WordStart(s, i) == ~IsSpace(s[i]) /\ (i = 1 \/ IsSpace(s[i - 1]))

RECURSIVE WordsIn(_, _, _)
\* the words of s that start at a position in lo..hi, in order (the range is
\* halved, so that a long text needs only a shallow recursion)
WordsIn(s, lo, hi) ==
    IF lo > hi THEN <<>>
    ELSE IF lo = hi
    THEN IF WordStart(s, lo) THEN <<SubSeq(s, lo, WordEnd(s, lo) - 1)>>
         ELSE <<>>
    ELSE LET mid == (lo + hi) \div 2
         IN WordsIn(s, lo, mid) \o WordsIn(s, mid + 1, hi)

\* str.split(): the maximal runs of non-separator characters, in order
split(s) == WordsIn(s, 1, Len(s))

RECURSIVE JoinIn(_, _, _, _)
\* words lo..hi with sep between neighbours (halved like WordsIn)
JoinIn(sep, words, lo, hi) ==
    IF lo > hi THEN <<>>
    ELSE IF lo = hi THEN words[lo]
    ELSE LET mid == (lo + hi) \div 2
         IN JoinIn(sep, words, lo, mid) \o sep \o JoinIn(sep, words, mid + 1, hi)

\* sep.join(words)
join(sep, words) == JoinIn(sep, words, 1, Len(words))

\* Python's seq[:k] for k >= 0
SliceTo(seq, k) == SubSeq(seq, 1, Min(k, Len(seq)))

\* Python's seq[k:] for any integer k: a negative k counts from the end,
\* and -0 is 0, so seq[-0:] is all of seq
SliceFrom(seq, k) ==
    LET start == IF k < 0 THEN Max(Len(seq) + k, 0) ELSE Min(k, Len(seq))
    IN SubSeq(seq, start + 1, Len(seq))

\* more words than this and truncate_value shortens
WordLimit == 200
\* words truncate_value keeps at each end
KeepWords == 100

Ellipsis == <<" ", ".", ".", ".", " ">>

\* show's nested truncate_value: [exc, txt]; str(value) may raise
truncate_value(value) ==
    IF value.strOut # "ok" THEN [exc |-> value.strOut, txt |-> <<>>]
    ELSE LET value_str == value.text
             words == split(value_str)
         IN IF Len(words) > WordLimit
            THEN [exc |-> "none",
                  txt |-> join(<<" ">>, SliceTo(words, KeepWords)) \o Ellipsis
                          \o join(<<" ">>, SliceFrom(words, 0 - KeepWords))]
            ELSE [exc |-> "none", txt |-> value_str]

-----------------------------------------------------------------------------
(* Python values, as far as the summarisers observe them.                  *)
(*   type     type(v).__name__                                             *)
(*   hasKeys  v.keys() exists (dictionary-like)                            *)
(*   iterable isinstance(v, Iterable); iter(v) works                       *)
(*   hasLen   hasattr(v, "__len__")                                        *)
(*   lenOut   how len(v) ends: "ok" or the exception it raises             *)
(*   lenVal   len(v) when lenOut = "ok"                                    *)
(*   strOut   how str(v) ends: "ok" or the exception it raises             *)
(*   text     str(v);  repr: repr(v)                                       *)
(*   elems    what iterating v yields (a dictionary yields its keys)       *)
(*   vals     a dictionary's values, in the order of its keys              *)
(*   oneshot  v is its own iterator: an element yielded is gone            *)
(*   pos      how many elements a one-shot v has already yielded           *)
(***************************************************************************)

Leaf(type, hasLen, lenOut, lenVal, strOut, txt, rep) ==
    [type |-> type, hasKeys |-> FALSE, iterable |-> FALSE, hasLen |-> hasLen,
     lenOut |-> lenOut, lenVal |-> lenVal, strOut |-> strOut, text |-> txt,
     repr |-> rep, elems |-> <<>>, vals |-> <<>>, oneshot |-> FALSE, pos |-> 0]

\* the int 7
IntElem == Leaf("int", FALSE, "TypeError", 0, "ok", <<"7">>, <<"7">>)
\* the one-character strings 'a' and 'b' (as elements they are not expanded)
StrA == Leaf("str", TRUE, "ok", 1, "ok", <<"a">>, <<"'", "a", "'">>)
StrB == Leaf("str", TRUE, "ok", 1, "ok", <<"b">>, <<"'", "b", "'">>)
\* the two-element list [7, 7]
ListText == <<"[", "7", ",", " ", "7", "]">>
ListElem == Leaf("list", TRUE, "ok", 2, "ok", ListText, ListText)
\* a class object such as list: it has the attribute __len__ (the unbound
\* method), and len() of it raises TypeError
ClassText == <<"<", "c", "l", "a", "s", "s", " ",
               "'", "l", "i", "s", "t", "'", ">">>
ClassElem == Leaf("type", TRUE, "TypeError", 0, "ok", ClassText, ClassText)
\* range(10**100): len() of it raises OverflowError
\* (its text, range(0, 10**100), is written with N for the 101 digits)
RangeText == <<"r", "a", "n", "g", "e", "(", "0", ",", " ", "N", ")">>
HugeRange == Leaf("range", TRUE, "OverflowError", 0, "ok", RangeText, RangeText)
\* 10**5000: str() of it raises ValueError (the integer digit limit)
HugeInt == Leaf("int", FALSE, "TypeError", 0, "ValueError", <<>>, <<>>)

\* the values found inside containers
Elems == {IntElem, StrA, ListElem, ClassElem, HugeRange, HugeInt}
\* the values used as dictionary keys
Keys == {StrA, StrB, IntElem}

SeqsUpTo(S, n) == UNION {[1..k -> S] : k \in 0..n}

RECURSIVE ReprItems(_)
ReprItems(xs) ==
    IF xs = <<>> THEN <<>>
    ELSE IF Len(xs) = 1 THEN xs[1].repr
    ELSE xs[1].repr \o <<",", " ">> \o ReprItems(Tail(xs))

\* repr of a list of values, as list.__repr__ writes it
ReprList(xs) == <<"[">> \o ReprItems(xs) \o <<"]">>

Container(type, hasKeys, lenOut, elems, vals, oneshot) ==
    [type |-> type, hasKeys |-> hasKeys, iterable |-> TRUE,
     hasLen |-> lenOut = "ok", lenOut |-> lenOut, lenVal |-> Len(elems),
     strOut |-> "ok", text |-> <<>>, repr |-> <<>>, elems |-> elems,
     vals |-> vals, oneshot |-> oneshot, pos |-> 0]

\* a list
List(xs) == Container("list", FALSE, "ok", xs, <<>>, FALSE)
\* a generator: size-less (len raises TypeError), one-shot
Generator(xs) == Container("generator", FALSE, "TypeError", xs, <<>>, TRUE)
\* a str: sized, iterating it yields its characters
Str(cs) == Container("str", FALSE, "ok", cs, <<>>, FALSE)
\* a dict with keys ks and values vs
Dict(ks, vs) == Container("dict", TRUE, "ok", ks, vs, FALSE)

Injective(f) == \A i, j \in DOMAIN f : f[i] = f[j] => i = j

Lists == {List(xs) : xs \in SeqsUpTo(Elems, MaxLen)}
Generators == {Generator(xs) : xs \in SeqsUpTo(Elems, MaxLen)}
Strs == {Str(cs) : cs \in SeqsUpTo({StrA, StrB}, MaxLen)}
Dicts == {Dict(ks, vs) : <<ks, vs>> \in
            {p \in SeqsUpTo(Keys, MaxLen - 1) \X SeqsUpTo(Elems, MaxLen - 1) :
                Len(p[1]) = Len(p[2]) /\ Injective(p[1])}}

\* every value the summarisers are called on: the containers, a plain int
\* (not iterable) and range(10**100) itself
Values == Lists \cup Generators \cup Strs \cup Dicts
          \cup {IntElem, [HugeRange EXCEPT !.iterable = TRUE]}

-----------------------------------------------------------------------------
(* Printed output: one record per print call.                              *)
(*   "DictHeader"  Dictionary Overview:       "ListHeader"  List Overview: *)
(*   "TotalKeys"   Total keys: n              "TotalItems"  Total items: n *)
(*   "Keys"        Keys: txt                  "Ellipsis"    ...            *)
(*   "DictEntry"   n. dict['txt']             "ListItem"    n+1. list[n]   *)
(*   "Type"        - Type: txt                "Length"      - Length: n    *)
(*   "Values"      - Values: txt (show)       "Value"       - Value: txt   *)
(*   "Unsupported" Unsupported item type: txt                              *)
(***************************************************************************)

Line(tag, n, txt) == [tag |-> tag, n |-> n, txt |-> txt]

\* what a call did: the lines it printed, the exception it let escape
\* ("none" if it returned), and how many elements it pulled from its argument
Outcome(out, exc, taken) == [out |-> out, exc |-> exc, taken |-> taken]

\* the elements a fresh iteration of v yields: a one-shot value has only
\* those it has not yielded yet
Remaining(v) == IF v.oneshot THEN SubSeq(v.elems, v.pos + 1, Len(v.elems))
                ELSE v.elems

\* the exceptions the element-length handler catches (except TypeError)
CaughtByLenHandler(exc) == exc = "TypeError"

RECURSIVE ListLoop(_, _, _, _, _, _, _, _)
(* The head-and-tail loop of show (lines 231-247) and of show_list (lines  *)
(* 24-42), from index idx on.  src: the elements enumerate yields;         *)
(* lenKnown, len: item_len (lenKnown FALSE when it is None); head, tail:   *)
(* the limits; out: the lines printed so far; rich: TRUE for show, which   *)
(* prints "Values" through truncate_value, FALSE for show_list, which      *)
(* prints "Value" through str.                                             *)
ListLoop(src, idx, lenKnown, len, head, tail, out, rich) ==
    IF idx >= Len(src) THEN Outcome(out, "none", Len(src))
    ELSE
    LET subitem == src[idx + 1] IN
    IF idx >= head /\ ~lenKnown
    \* idx < None - max_tail_items raises TypeError
    THEN Outcome(out, "TypeError", idx + 1)
    ELSE IF idx >= head /\ idx < len - tail
    THEN ListLoop(src, idx + 1, lenKnown, len, head, tail,
                  IF idx = head THEN Append(out, Line("Ellipsis", 0, <<>>))
                  ELSE out, rich)
    ELSE IF subitem.lenOut # "ok" /\ ~CaughtByLenHandler(subitem.lenOut)
    THEN Outcome(out, subitem.lenOut, idx + 1)
    ELSE
    LET block == <<Line("ListItem", idx, <<>>),
                   Line("Type", 0, <<subitem.type>>)>>
                 \o (IF subitem.lenOut = "ok"
                     THEN <<Line("Length", subitem.lenVal, <<>>)>> ELSE <<>>)
        shown == IF rich THEN truncate_value(subitem)
                 ELSE [exc |-> IF subitem.strOut = "ok" THEN "none"
                               ELSE subitem.strOut,
                       txt |-> subitem.text]
    IN IF shown.exc # "none" THEN Outcome(out \o block, shown.exc, idx + 1)
       ELSE ListLoop(src, idx + 1, lenKnown, len, head, tail,
                     out \o block
                     \o <<Line(IF rich THEN "Values" ELSE "Value", 0, shown.txt)>>,
                     rich)

\* whether the dictionary loops ask a value for its length
AsksLen(v) == v.hasLen

RECURSIVE DictLoop(_, _, _, _)
(* The entry loop of show (lines 211-218) and of show_dict (lines 51-60),  *)
(* from the i-th pair on.                                                  *)
DictLoop(d, i, out, rich) ==
    IF i > Len(d.vals) THEN Outcome(out, "none", 0)
    ELSE
    LET k == d.elems[i]
        v == d.vals[i]
        head == out \o <<Line("DictEntry", i, k.text),
                         Line("Type", 0, <<v.type>>)>>
    IN IF AsksLen(v) /\ v.lenOut # "ok" THEN Outcome(head, v.lenOut, 0)
       ELSE
       LET sized == IF AsksLen(v)
                    THEN Append(head, Line("Length", v.lenVal, <<>>))
                    ELSE head
           shown == IF rich THEN truncate_value(v)
                    ELSE [exc |-> IF v.strOut = "ok" THEN "none" ELSE v.strOut,
                          txt |-> v.text]
       IN IF shown.exc # "none" THEN Outcome(sized, shown.exc, 0)
          ELSE DictLoop(d, i + 1,
                        Append(sized, Line(IF rich THEN "Values" ELSE "Value",
                                           0, shown.txt)),
                        rich)

\* the three lines both dictionary summaries open with
DictOverview(d) ==
    <<Line("DictHeader", 0, <<>>),
      Line("TotalKeys", Len(d.elems), <<>>),
      Line("Keys", 0, ReprList(d.elems))>>

\* show's try block, lines 205-218: the exception that ends it is caught by
\* the bare except, so exc here only selects the handler
ShowDictBranch(v) ==
    IF ~v.hasKeys THEN Outcome(<<>>, "AttributeError", 0)
    ELSE DictLoop(v, 1, DictOverview(v), TRUE)

\* whether show's handler goes on to iterate v (line 220)
Expands(v) == v.iterable

\* the exceptions the handlers around len(item) catch (except TypeError)
CaughtBySizeHandler(exc) == exc = "TypeError"

\* lines 220-249 of show, entered with the lines out already printed
ShowIterBranch(v, head, tail, out) ==
    IF ~Expands(v)
    THEN Outcome(Append(out, Line("Unsupported", 0, <<v.type>>)), "none", 0)
    ELSE IF v.lenOut # "ok" /\ ~CaughtBySizeHandler(v.lenOut)
    THEN Outcome(out, v.lenOut, 0)
    ELSE ListLoop(Remaining(v), 0, v.lenOut = "ok", v.lenVal, head, tail,
                  Append(out, Line("ListHeader", 0, <<>>))
                  \o (IF v.lenOut = "ok"
                      THEN <<Line("TotalItems", v.lenVal, <<>>)>> ELSE <<>>),
                  TRUE)

\* show(item, max_head_items=head, max_tail_items=tail)
show(v, head, tail) ==
    LET tried == ShowDictBranch(v)
    IN IF tried.exc = "none" THEN tried
       ELSE ShowIterBranch(v, head, tail, tried.out)

\* show_list(items, max_head=head, max_tail=tail)
show_list(v, head, tail) ==
    IF v.lenOut # "ok" /\ ~CaughtBySizeHandler(v.lenOut)
    THEN Outcome(<<>>, v.lenOut, 0)
    ELSE
    LET out == <<Line("ListHeader", 0, <<>>)>>
               \o (IF v.lenOut = "ok"
                   THEN <<Line("TotalItems", v.lenVal, <<>>)>> ELSE <<>>)
    IN \* enumerate(items) of a value that is not iterable raises TypeError
       IF ~v.iterable THEN Outcome(out, "TypeError", 0)
       ELSE ListLoop(Remaining(v), 0, v.lenOut = "ok", v.lenVal, head, tail,
                     out, FALSE)

\* show_dict(dct)
show_dict(v) ==
    IF ~v.hasKeys
    THEN Outcome(<<Line("DictHeader", 0, <<>>)>>, "AttributeError", 0)
    ELSE DictLoop(v, 1, DictOverview(v), FALSE)

-----------------------------------------------------------------------------
(* The summarisers, called up to MaxCalls times in a row on one value. *)

\* item after a call that pulled taken elements from it
After(v, taken) == IF v.oneshot THEN [v EXCEPT !.pos = @ + taken] ELSE v

Record(fn, r) == [fn |-> fn, out |-> r.out, exc |-> r.exc, taken |-> r.taken]

CallShow ==
    /\ Len(calls) < MaxCalls
    /\ LET r == show(item, max_head_items, max_tail_items)
       IN /\ calls' = Append(calls, Record("show", r))
          /\ item' = After(item, r.taken)
    /\ UNCHANGED <<max_head_items, max_tail_items>>

CallShowList ==
    /\ Len(calls) < MaxCalls
    /\ LET r == show_list(item, max_head_items, max_tail_items)
       IN /\ calls' = Append(calls, Record("show_list", r))
          /\ item' = After(item, r.taken)
    /\ UNCHANGED <<max_head_items, max_tail_items>>

CallShowDict ==
    /\ Len(calls) < MaxCalls
    /\ LET r == show_dict(item)
       IN /\ calls' = Append(calls, Record("show_dict", r))
          /\ item' = After(item, r.taken)
    /\ UNCHANGED <<max_head_items, max_tail_items>>

-----------------------------------------------------------------------------
(* truncate_value on texts around the word limit. *)

\* how far below and above WordLimit the word counts tried reach
Slack == 3
\* longest word tried
MaxWordLen == 2
\* widest run of separators tried between two words
MaxGap == 2

Repeat(c, n) == [i \in 1..n |-> c]

\* n words of w characters each ("a" in the odd words, "b" in the even
\* ones), with a gap of g characters sep between neighbours
TextOf(n, w, g, sep) ==
    [i \in 1..(IF n = 0 THEN 0 ELSE n * w + (n - 1) * g) |->
        IF (i - 1) % (w + g) >= w THEN sep
        ELSE IF ((i - 1) \div (w + g)) % 2 = 0 THEN "a" ELSE "b"]

\* a str value with the given characters
StrOf(cs) == Leaf("str", TRUE, "ok", Len(cs), "ok", cs, cs)

TruncInputs ==
    {StrOf(Repeat(" ", lead) \o TextOf(n, w, g, sep)) :
        n \in (WordLimit - Slack)..(WordLimit + Slack),
        w \in 1..MaxWordLen, g \in 1..MaxGap, sep \in {" ", "\n"},
        lead \in 0..1}

CallTruncate ==
    /\ ~truncated
    /\ preview' = truncate_value(text)
    /\ truncated' = TRUE
    /\ UNCHANGED text

-----------------------------------------------------------------------------
(* tree.  Directories are numbered; an entry name is a number, ordered as  *)
(* the names sort.  fs.entries[d] is what os.listdir(d) returns, fs.denied *)
(* the directories whose listing raises PermissionError.  What a name      *)
(* denotes is fixed by Target: name 1 is a link back to the root, name 2   *)
(* is directory 2, every other name is a plain file.  A stack frame is one *)
(* activation of tree: its start_path, current_depth and prefix, its       *)
(* display_files once computed, and the index i its loop has reached.      *)
(***************************************************************************)

\* entry names per directory: 1..MaxNames
MaxNames == 3
\* largest max_files tried
MaxFilesArg == 3
\* largest max_depth tried
MaxDepthArg == 2

Root == 1
Dirs == {1, 2}
Names == 1..MaxNames
\* the "..." that stands for the entries left out
Marker == 0

\* os.path.isdir(os.path.join(d, name)): the directory name leads to, 0 if
\* it is not a directory
Target(name) == IF name \in Dirs THEN name ELSE 0

RECURSIVE Sorted(_)
\* files.sort(): the names in ascending order
Sorted(S) ==
    IF S = {} THEN <<>>
    ELSE LET m == CHOOSE x \in S : \A y \in S : x <= y
         IN <<m>> \o Sorted(S \ {m})

\* lines 86-89: the list the loop walks
DisplayFiles(files, maxFiles) ==
    IF Len(files) > maxFiles
    THEN SliceTo(files, maxFiles \div 2) \o <<Marker>>
         \o SliceFrom(files, (0 - maxFiles) \div 2)
    ELSE files

\* the depth test one level late
TooDeepOneLate(depth, maxDepth) == depth > maxDepth + 1

\* line 74: whether the activation lists nothing and prints the cut line
TooDeep(depth, maxDepth) == depth > maxDepth

Frame(path, depth, prefix) ==
    [path |-> path, depth |-> depth, prefix |-> prefix, pc |-> "enter",
     files |-> <<>>, i |-> 0]

\* a printed line: the depth of the activation that printed it, its prefix,
\* the connector ("+-- " or "|-- ") and what follows it
TreeLine(depth, prefix, connector, kind, name) ==
    [depth |-> depth, prefix |-> prefix, connector |-> connector,
     kind |-> kind, name |-> name]

Top == stack[Len(stack)]
Pop == SubSeq(stack, 1, Len(stack) - 1)
SetTop(f) == [stack EXCEPT ![Len(stack)] = f]

\* lines 74-76: too deep, print the cut line and return
EnterCut ==
    /\ stack # <<>> /\ Top.pc = "enter"
    /\ TooDeep(Top.depth, max_depth)
    /\ printed' = Append(printed,
                         TreeLine(Top.depth, Top.prefix, "+-- ", "cut", Marker))
    /\ stack' = Pop
    /\ UNCHANGED <<fs, max_files, max_depth>>

\* lines 78-83: os.listdir raises PermissionError
EnterDenied ==
    /\ stack # <<>> /\ Top.pc = "enter"
    /\ ~TooDeep(Top.depth, max_depth)
    /\ Top.path \in fs.denied
    /\ printed' = Append(printed,
                         TreeLine(Top.depth, Top.prefix, "+-- ", "denied", Marker))
    /\ stack' = Pop
    /\ UNCHANGED <<fs, max_files, max_depth>>

\* lines 78-89: list, sort, and cut the list down if it is too long
EnterList ==
    /\ stack # <<>> /\ Top.pc = "enter"
    /\ ~TooDeep(Top.depth, max_depth)
    /\ Top.path \notin fs.denied
    /\ stack' = SetTop([Top EXCEPT
                           !.pc = "loop",
                           !.files = DisplayFiles(Sorted(fs.entries[Top.path]),
                                                  max_files)])
    /\ UNCHANGED <<fs, max_files, max_depth, printed>>

\* lines 93-95: the "..." entry
StepMarker ==
    /\ stack # <<>> /\ Top.pc = "loop" /\ Top.i < Len(Top.files)
    /\ Top.files[Top.i + 1] = Marker
    /\ printed' = Append(printed,
                         TreeLine(Top.depth, Top.prefix, "+-- ", "marker", Marker))
    /\ stack' = SetTop([Top EXCEPT !.i = @ + 1])
    /\ UNCHANGED <<fs, max_files, max_depth>>

IsLast(f) == f.i = Len(f.files) - 1

\* lines 97-100: an entry that is not a directory
StepFile ==
    /\ stack # <<>> /\ Top.pc = "loop" /\ Top.i < Len(Top.files)
    /\ LET name == Top.files[Top.i + 1]
       IN /\ name # Marker
          /\ Target(name) = 0
          /\ printed' = Append(printed,
                               TreeLine(Top.depth, Top.prefix,
                                        IF IsLast(Top) THEN "+-- " ELSE "|-- ",
                                        "entry", name))
    /\ stack' = SetTop([Top EXCEPT !.i = @ + 1])
    /\ UNCHANGED <<fs, max_files, max_depth>>

\* lines 97-102: an entry that is a directory: print it and call tree on it
StepDir ==
    /\ stack # <<>> /\ Top.pc = "loop" /\ Top.i < Len(Top.files)
    /\ LET name == Top.files[Top.i + 1]
       IN /\ name # Marker
          /\ Target(name) # 0
          /\ printed' = Append(printed,
                               TreeLine(Top.depth, Top.prefix,
                                        IF IsLast(Top) THEN "+-- " ELSE "|-- ",
                                        "entry", name))
          /\ stack' = Append(SetTop([Top EXCEPT !.i = @ + 1]),
                             Frame(Target(name), Top.depth + 1,
                                   Append(Top.prefix,
                                          IF IsLast(Top) THEN "    " ELSE "|   ")))
    /\ UNCHANGED <<fs, max_files, max_depth>>

\* the loop is over: the activation returns
Return ==
    /\ stack # <<>> /\ Top.pc = "loop" /\ Top.i = Len(Top.files)
    /\ stack' = Pop
    /\ UNCHANGED <<fs, max_files, max_depth, printed>>

NextShow ==
    \/ CallShow /\ UNCHANGED <<truncVars, treeVars>>
    \/ CallShowList /\ UNCHANGED <<truncVars, treeVars>>
    \/ CallShowDict /\ UNCHANGED <<truncVars, treeVars>>

\* the values of the variables a specification does not use
NoText == StrOf(<<>>)
NoPreview == [exc |-> "none", txt |-> <<>>]
NoFs == [entries |-> [d \in Dirs |-> {}], denied |-> {}]

InitShow ==
    /\ item \in Values
    /\ max_head_items \in 0..MaxHead
    /\ max_tail_items \in 0..MaxTail
    /\ calls = <<>>
    /\ text = NoText /\ preview = NoPreview /\ truncated = FALSE
    /\ fs = NoFs /\ max_files = 0 /\ max_depth = 0
    /\ stack = <<>> /\ printed = <<>>

\* the summarisers on every value of Values
SpecShow == InitShow /\ [][NextShow]_vars

NextTrunc == CallTruncate /\ UNCHANGED <<showVars, treeVars>>

InitTrunc ==
    /\ text \in TruncInputs
    /\ preview = NoPreview
    /\ truncated = FALSE
    /\ item = IntElem /\ max_head_items = 0 /\ max_tail_items = 0
    /\ calls = <<>>
    /\ fs = NoFs /\ max_files = 0 /\ max_depth = 0
    /\ stack = <<>> /\ printed = <<>>

\* truncate_value on every text of TruncInputs
SpecTrunc == InitTrunc /\ [][NextTrunc]_vars

NextTree ==
    \/ EnterCut /\ UNCHANGED <<showVars, truncVars>>
    \/ EnterDenied /\ UNCHANGED <<showVars, truncVars>>
    \/ EnterList /\ UNCHANGED <<showVars, truncVars>>
    \/ StepMarker /\ UNCHANGED <<showVars, truncVars>>
    \/ StepFile /\ UNCHANGED <<showVars, truncVars>>
    \/ StepDir /\ UNCHANGED <<showVars, truncVars>>
    \/ Return /\ UNCHANGED <<showVars, truncVars>>

InitTree ==
    /\ fs \in [entries : [Dirs -> SUBSET Names], denied : SUBSET Dirs]
    /\ max_files \in 0..MaxFilesArg
    /\ max_depth \in (0 - 1)..MaxDepthArg
    /\ stack = <<Frame(Root, 0, <<>>)>>
    /\ printed = <<>>
    /\ item = IntElem /\ max_head_items = 0 /\ max_tail_items = 0
    /\ calls = <<>>
    /\ text = NoText /\ preview = NoPreview /\ truncated = FALSE

\* tree on every directory graph of InitTree; a running call keeps running
\* (the interpreter does not stop between two statements)
SpecTree == InitTree /\ [][NextTree]_vars /\ WF_vars(NextTree)

-----------------------------------------------------------------------------
(* Reading a call's output. *)

IsListItem(l) == l.tag = "ListItem"
IsEllipsis(l) == l.tag = "Ellipsis"
IsDictHeader(l) == l.tag = "DictHeader"
IsListHeader(l) == l.tag = "ListHeader"
IsDictEntry(l) == l.tag = "DictEntry"
NotValueLine(l) == l.tag \notin {"Values", "Value"}

\* the indices of the item blocks of out, in the order printed
ItemIndices(out) ==
    LET blocks == SelectSeq(out, IsListItem)
    IN [i \in DOMAIN blocks |-> blocks[i].n]

\* the calls made so far by one of the functions in fns
CallsOf(fns) == {k \in DOMAIN calls : calls[k].fn \in fns}

\* whether len() of v gives a size
Sized(v) == v.lenOut = "ok"

-----------------------------------------------------------------------------
(* C1. For a sized sequence that is no dictionary, of length L greater     *)
(* than max_head_items + max_tail_items, show and show_list print exactly  *)
(* one "..." line and an item block for exactly the indices 0..head-1 and  *)
(* L-tail..L-1, in increasing order, none twice.                           *)
(* The code does so unless an element stops the call: len() of an element  *)
(* raising anything but TypeError, or str() of an element raising, leaves  *)
(* the call (see C3), and the blocks from there on are missing.            *)
C1_HeadTailWindow ==
    \A k \in CallsOf({"show", "show_list"}) :
        LET L == item.lenVal
            h == max_head_items
            t == max_tail_items
        IN (item.iterable /\ ~item.hasKeys /\ Sized(item) /\ L > h + t)
           => /\ Len(SelectSeq(calls[k].out, IsEllipsis)) = 1
              /\ ItemIndices(calls[k].out)
                 = [i \in 1..(h + t) |-> IF i <= h THEN i - 1 ELSE L - t + (i - h) - 1]

(* C2. For a value whose size cannot be determined (len raises TypeError,  *)
(* as for a generator), show and show_list print no item block and pull    *)
(* no element from the value.                                              *)
(* The code iterates such a value: lines 231 and 24 run whatever item_len  *)
(* is.                                                                     *)
C2_SizelessNotIterated ==
    \A k \in CallsOf({"show", "show_list"}) :
        item.lenOut = "TypeError"
        => /\ SelectSeq(calls[k].out, IsListItem) = <<>>
           /\ calls[k].taken = 0

(* C3. show and show_list return normally for every value and every        *)
(* non-negative head and tail limit: no exception reaches the caller.      *)
(* The code lets escape: the TypeError of idx < None - max_tail_items for  *)
(* a size-less iterable with more than max_head_items elements, a len()    *)
(* that raises anything but TypeError, a str() that raises, and in         *)
(* show_list the TypeError of iterating a value that is not iterable.      *)
C3_NeverRaises ==
    \A k \in CallsOf({"show", "show_list"}) : calls[k].exc = "none"

\* the i-th value of dictionary d stops the entry loop of show
StopsEntryLoop(d, i) ==
    \/ d.vals[i].hasLen /\ d.vals[i].lenOut # "ok"
    \/ d.vals[i].strOut # "ok"

(* C4. In show, an error raised while formatting one dictionary value does *)
(* not abort its siblings: every other pair still gets its entry block,    *)
(* and the output holds the one "Dictionary Overview:" header and no       *)
(* "List Overview:" section.                                               *)
(* The code's bare except (line 219) catches the error outside the loop:   *)
(* the later pairs get no entry block and the keys are listed again under  *)
(* "List Overview:".                                                       *)
C4_SiblingsSurvive ==
    \A k \in CallsOf({"show"}) :
        item.hasKeys
        => /\ \A i \in DOMAIN item.vals :
                ~StopsEntryLoop(item, i)
                => \E j \in DOMAIN calls[k].out :
                      IsDictEntry(calls[k].out[j]) /\ calls[k].out[j].n = i
           /\ Len(SelectSeq(calls[k].out, IsDictHeader)) = 1
           /\ SelectSeq(calls[k].out, IsListHeader) = <<>>

(* C5. show called twice in a row on the same value with the same          *)
(* parameters prints the same lines and ends the same way both times.      *)
(* The code consumes a one-shot iterable in the first call (see C2), so    *)
(* the second call finds fewer elements.                                   *)
C5_SameOutputTwice ==
    \A k \in DOMAIN calls :
        (k > 1 /\ calls[k].fn = "show" /\ calls[k - 1].fn = "show")
        => /\ calls[k].out = calls[k - 1].out
           /\ calls[k].exc = calls[k - 1].exc

\* the lines a dictionary summary prints apart from the value lines,
\* for the pairs from i on: the entry, its type, and its length if the
\* value has a size
RECURSIVE EntrySkeleton(_, _)
EntrySkeleton(d, i) ==
    IF i > Len(d.vals) THEN <<>>
    ELSE <<Line("DictEntry", i, d.elems[i].text),
           Line("Type", 0, <<d.vals[i].type>>)>>
         \o (IF Sized(d.vals[i])
             THEN <<Line("Length", d.vals[i].lenVal, <<>>)>> ELSE <<>>)
         \o EntrySkeleton(d, i + 1)

(* C7. For a dictionary-like value show and show_dict print "Total keys"   *)
(* with the number of keys, the list of the keys, and then one entry block *)
(* per pair in the mapping's order, numbered 1..n; a block gives the       *)
(* value's type, and a Length line exactly when the value has a size, with *)
(* that size.                                                              *)
(* The code asks len() of every value that has the attribute __len__; a    *)
(* value that has it and no size (a class object) raises there, show_dict  *)
(* lets the error escape and show leaves the entry loop (see C4).          *)
C7_DictEntries ==
    \A k \in CallsOf({"show", "show_dict"}) :
        item.hasKeys
        => SelectSeq(calls[k].out, NotValueLine)
           = <<Line("DictHeader", 0, <<>>),
               Line("TotalKeys", Len(item.elems), <<>>),
               Line("Keys", 0, ReprList(item.elems))>>
             \o EntrySkeleton(item, 1)

(* C8. show prints item blocks only for a value that is iterable, is not a *)
(* str or bytes, and has a known length; a str is never expanded into one  *)
(* block per character.                                                    *)
(* The code tests isinstance(item, Iterable) alone (line 220): a str and a *)
(* generator are both expanded.                                            *)
C8_ExpandsOnlySizedNonText ==
    \A k \in CallsOf({"show"}) :
        SelectSeq(calls[k].out, IsListItem) # <<>>
        => /\ item.iterable
           /\ item.type \notin {"str", "bytes"}
           /\ Sized(item)

-----------------------------------------------------------------------------
\* a is the start, the end, of b
IsPrefix(a, b) == Len(a) <= Len(b) /\ SubSeq(b, 1, Len(a)) = a
IsSuffix(a, b) == Len(a) <= Len(b) /\ SubSeq(b, Len(b) - Len(a) + 1, Len(b)) = a

(* C6. For a text of more than 200 words, truncate_value returns the exact *)
(* prefix of the text holding its first 100 words, one " ... " marker, and *)
(* the exact suffix holding its last 100 words, and the result is strictly *)
(* shorter than the text.                                                  *)
(* The code joins the words with single spaces whatever separated them,    *)
(* and drops only the middle words: for 201 words of one character the     *)
(* result (403 characters) is longer than the text (401).                  *)
C6_PreviewShorter ==
    (truncated /\ Len(split(text.text)) > WordLimit)
    => LET words == split(text.text)
           out == preview.txt
       IN /\ preview.exc = "none"
          /\ \E p \in 0..Len(out) :
                LET front == SubSeq(out, 1, p)
                    back == SubSeq(out, p + Len(Ellipsis) + 1, Len(out))
                IN /\ p + Len(Ellipsis) <= Len(out)
                   /\ SubSeq(out, p + 1, p + Len(Ellipsis)) = Ellipsis
                   /\ IsPrefix(front, text.text)
                   /\ IsSuffix(back, text.text)
                   /\ split(front) = SliceTo(words, KeepWords)
                   /\ split(back) = SliceFrom(words, 0 - KeepWords)
          /\ Len(out) < Len(text.text)

-----------------------------------------------------------------------------
\* the lines the root activation printed
RootLines == SelectSeq(printed, LAMBDA l : l.depth = 0)

(* C9. tree, for a directory with more than max_files entries, prints at   *)
(* most max_files entry names (the first max_files // 2 and the last       *)
(* remaining ones of the sorted list, none twice) with exactly one "..."   *)
(* between them; a directory with at most max_files entries is printed in  *)
(* full, sorted, with no marker.  Stated for the start directory, once the *)
(* call has returned.                                                      *)
(* The code slices files[-max_files // 2:]; for max_files = 0 that is      *)
(* files[0:], the whole list, so every entry is printed after the marker.  *)
C9_WidthLimit ==
    (stack = <<>> /\ Root \notin fs.denied /\ max_depth >= 0)
    => LET files == Sorted(fs.entries[Root])
           names == [i \in DOMAIN RootLines |-> RootLines[i].name]
           front == max_files \div 2
       IN IF Len(files) > max_files
          THEN names = SubSeq(files, 1, front) \o <<Marker>>
                       \o SubSeq(files, Len(files) - (max_files - front) + 1,
                                 Len(files))
          ELSE names = files

\* tree has returned
Finished == stack = <<>>

IsCut(l) == l.kind = "cut"
\* a line printed for an entry that is a directory, by an activation at the
\* deepest depth that is still listed
IsDeepestDir(l) == l.kind = "entry" /\ l.depth = max_depth /\ Target(l.name) # 0
\* the directories found one level below max_depth so far: those entries,
\* and the start directory itself when max_depth is negative
FoundTooDeep == Len(SelectSeq(printed, IsDeepestDir))
                + (IF max_depth < 0 THEN 1 ELSE 0)

\* what C10 says of every state of a run of tree
C10_DepthBounded ==
    \* an activation deeper than max_depth lists nothing
    /\ \A j \in DOMAIN stack : stack[j].pc = "loop" => stack[j].depth <= max_depth
    /\ \A j \in DOMAIN printed :
          IF printed[j].depth > max_depth
          THEN IsCut(printed[j])
               /\ printed[j].connector = "+-- " /\ printed[j].name = Marker
          ELSE ~IsCut(printed[j])
    \* one cut line per directory found at depth max_depth
    /\ Len(SelectSeq(printed, IsCut)) <= FoundTooDeep
    /\ Finished => Len(SelectSeq(printed, IsCut)) = FoundTooDeep
    \* the recursion is never deeper than max_depth + 1
    /\ \A j \in DOMAIN stack : stack[j].depth = j - 1
    /\ Len(stack) <= Max(max_depth, 0 - 1) + 2

(* C10. tree never lists the entries of a directory whose depth below      *)
(* start_path exceeds max_depth: such a directory gets the single line     *)
(* "+-- ..."; so the recursion depth never exceeds max_depth + 1, and tree *)
(* returns on every directory graph, one with a link back to an ancestor   *)
(* included.                                                               *)
C10_DepthLimitTerminates == []C10_DepthBounded /\ <>Finished

\* tree has returned after following the link back to the root down to the
\* cut: the root holds name 1, and a cut line was printed
C10_CycleCutReached ==
    /\ Finished
    /\ 1 \in fs.entries[Root]
    /\ Root \notin fs.denied
    /\ \E j \in DOMAIN printed :
          IsCut(printed[j]) /\ printed[j].depth = max_depth + 1

====
